---- MODULE Spec2Model ----
EXTENDS Integers, Sequences, FiniteSets, TLC

\* ---------------------------------------------------------------------------
\* Common values
\* ---------------------------------------------------------------------------

\* Python None
Null == "<None>"

\* A dict without the key (dict.get falls back to its default)
Absent == "<absent>"

\* ---------------------------------------------------------------------------
\* Agent Loop: llm.query_with_tools
\* ---------------------------------------------------------------------------

MAX_TOOL_ITERATIONS == 5

\* Bound on the number of tool calls one scripted reply requests
MaxCalls == 2

\* What a scripted backend may put in a reply's "content"
ReplyContents == {"", "txt", Null, Absent}

\* How one requested tool call goes:
\*   ok_empty / ok_data : call_tool returns "" / "data"
\*   fail               : call_tool raises an Exception
\*   malformed          : the request lacks "function" or "name"
CallKinds == {"ok_empty", "ok_data", "fail", "malformed"}

CallSeqs == UNION {[1..n -> CallKinds] : n \in 0..MaxCalls}

Replies == [content : ReplyContents, calls : CallSeqs]

GetContentOrEmpty(m) == IF m.content \in {Absent, Null} THEN "" ELSE m.content

\* message.get("content", "")
GetContent(m) == IF m.content = Absent THEN "" ELSE m.content

\* `if not tool_calls:` -- None and [] both mean no tool calls
HasToolCalls(r) == Len(r.calls) > 0

\* The tool-result text appended for one call (try/except around call_tool)
ToolResultText(k) ==
  CASE k = "ok_empty" -> ""
    [] k = "ok_data"  -> "data"
    [] k = "fail"     -> "Error calling tool: boom"

\* a failed call's error text not appended to the conversation
ToolMessagesOkOnly(k) ==
  IF k = "fail" THEN << >> ELSE << [role |-> "tool", ncalls |-> 0] >>

\* messages.append({"role": "tool", "content": result}) after each call,
\* returned or failed
ToolMessages(k) == << [role |-> "tool", ncalls |-> 0] >>

\* msgs is the conversation (role and number of requested tool calls of each
\* message); lastContent is the "content" of its last message, the only
\* message content the loop ever reads back.
VARIABLES lpc, iteration, msgs, lastContent, pending, chats, toolCalls, ret, allTool

loopVars == <<lpc, iteration, msgs, lastContent, pending, chats, toolCalls, ret, allTool>>

LoopInit ==
  /\ lpc = "chat"
  /\ iteration = 0
  /\ msgs = << [role |-> "system", ncalls |-> 0], [role |-> "user", ncalls |-> 0] >>
  /\ lastContent = "usr"
  /\ pending = << >>
  /\ chats = 0
  /\ toolCalls = 0
  /\ ret = Null
  /\ allTool = TRUE

\* One pass of the for-iteration loop up to the tool calls: ollama.chat,
\* append the assistant message, return its content if it has no tool calls.
Chat ==
  /\ lpc = "chat"
  /\ iteration < MAX_TOOL_ITERATIONS
  /\ \E r \in Replies :
       /\ chats' = chats + 1
       /\ msgs' = Append(msgs, [role |-> "assistant", ncalls |-> Len(r.calls)])
       /\ lastContent' = r.content
       /\ allTool' = (allTool /\ HasToolCalls(r))
       /\ IF HasToolCalls(r)
            THEN /\ lpc' = "tools"
                 /\ pending' = r.calls
                 /\ ret' = ret
            ELSE /\ lpc' = "done"
                 /\ pending' = pending
                 /\ ret' = GetContent(r)
  /\ UNCHANGED <<iteration, toolCalls>>

TruncationResultNone(last) == Null

\* after the loop: return messages[-1].get("content", "")
TruncationResult(last) == GetContent(last)

\* One tool call of the inner for-loop. The dictionary lookups on the request
\* happen outside the try, so a malformed request raises out of the loop.
\* After the last call of the turn the iteration ends; after the last
\* iteration the function returns messages[-1].get("content", "").
ToolStep ==
  /\ lpc = "tools"
  /\ pending # << >>
  /\ LET k == Head(pending) IN
     IF k = "malformed"
       THEN /\ lpc' = "raised"
            /\ UNCHANGED <<iteration, msgs, lastContent, pending, chats, toolCalls, ret, allTool>>
       ELSE LET newLast == [content |-> ToolResultText(k)]
            IN /\ toolCalls' = toolCalls + 1
               /\ msgs' = msgs \o ToolMessages(k)
               /\ lastContent' = newLast.content
               /\ pending' = Tail(pending)
               /\ IF Tail(pending) # << >>
                    THEN /\ lpc' = "tools"
                         /\ UNCHANGED <<iteration, ret>>
                    ELSE /\ iteration' = iteration + 1
                         /\ IF iteration + 1 < MAX_TOOL_ITERATIONS
                              THEN /\ lpc' = "chat"
                                   /\ ret' = ret
                              ELSE /\ lpc' = "done"
                                   /\ ret' = TruncationResult(newLast)
               /\ UNCHANGED <<chats, allTool>>

\* C1: query_with_tools makes at most MAX_TOOL_ITERATIONS backend invocations;
\* when every reply requests at least one tool call, it makes exactly
\* MAX_TOOL_ITERATIONS invocations and then returns a non-null string.
LoopTermination ==
  /\ chats <= MAX_TOOL_ITERATIONS
  /\ (lpc \in {"done", "raised"} /\ allTool)
       => (lpc = "done" /\ chats = MAX_TOOL_ITERATIONS /\ ret # Null)

\* C2: a reply without tool-call requests is the last message of the
\* conversation, the loop has stopped there and returned that reply's content
\* as it is ("" when it has no content key); when the first reply has no tool
\* calls there was exactly one backend invocation and no tool call.
LoopSuccessPath ==
  /\ \A i \in 3..Len(msgs) :
       (msgs[i].role = "assistant" /\ msgs[i].ncalls = 0)
         => /\ i = Len(msgs)
            /\ lpc = "done"
            /\ ret = (IF lastContent = Absent THEN "" ELSE lastContent)
  /\ (Len(msgs) >= 3 /\ msgs[3].ncalls = 0) => (chats = 1 /\ toolCalls = 0)

\* Witness of C2: the loop stopped on a later reply without tool calls whose
\* content is None.
LoopSuccessPathWitness ==
  /\ lpc = "done"
  /\ Len(msgs) > 3
  /\ msgs[Len(msgs)].role = "assistant"
  /\ lastContent = Null

\* C3: no failing tool call (call_tool raising, or a malformed tool-call
\* request) makes query_with_tools raise.
NoToolFailureRaises == lpc # "raised"

\* ---------------------------------------------------------------------------
\* Run Store: history.save_run / history.update_run
\* ---------------------------------------------------------------------------

\* Bound on the number of run files in the store
MaxRuns == 2

RunIds == 1..MaxRuns

\* Bound on the number of save_run calls (Clear History frees the ids)
MaxCreates == 3

\* No file context/history/<run_id>.json
NoRecord == [file |-> "absent"]

Statuses == {"running", "complete", "failed", "cancelled"}

\* Timestamps are abstracted to "set" (datetime.now(...).isoformat())
Now == "ts"

SaveRunBlankResult(label, promptId, now) ==
  [label |-> label, prompt_id |-> promptId, status |-> "running",
   result |-> "", log |-> << >>, started_at |-> now, finished_at |-> Null]

\* save_run(label, prompt_id): the entry it writes; now is the start time
\* (datetime.now, strictly increasing between runs)
SaveRun(label, promptId, now) ==
  [label |-> label, prompt_id |-> promptId, status |-> "running",
   result |-> Null, log |-> << >>, started_at |-> now, finished_at |-> Null]

\* A file that holds a run entry (json.loads gives a dict with a status)
IsEntry(x) == "status" \in DOMAIN x

\* The log argument of update_run: None, or a list of lines
LogNone == [isNone |-> TRUE]
LogOf(lines) == [isNone |-> FALSE, lines |-> lines]

UpdateRunNoFinish(entry, status, result, log) ==
  [entry EXCEPT !.status = status,
                !.result = IF result # Null THEN result ELSE entry.result,
                !.log = IF ~log.isNone THEN log.lines ELSE entry.log]

UpdateRunOverwrite(entry, status, result, log) ==
  [entry EXCEPT !.status = status,
                !.result = result,
                !.log = IF ~log.isNone THEN log.lines ELSE entry.log,
                !.finished_at = Now]

\* update_run(run_id, status, result=None, log=None) applied to the stored entry
UpdateRun(entry, status, result, log) ==
  [entry EXCEPT !.status = status,
                !.result = IF result # Null THEN result ELSE entry.result,
                !.log = IF ~log.isNone THEN log.lines ELSE entry.log,
                !.finished_at = Now]

Labels == {"Free-form Query"}
PromptIds == {Null, "mac-risk"}
UpdateResults == {Null, "", "r"}
UpdateLogs == {LogNone, LogOf(<<"line">>)}

\* store: the files context/history/<id>.json; clock: the start time the
\* next save_run stamps
VARIABLES store, clock

storeVars == <<store, clock>>

StoreInit ==
  /\ store = [i \in RunIds |-> NoRecord]
  /\ clock = 1

\* save_run: writes a fresh "running" entry under a new id
Create ==
  \E i \in RunIds, label \in Labels, pid \in PromptIds :
    /\ clock <= MaxCreates
    /\ store[i] = NoRecord
    /\ store' = [store EXCEPT ![i] = SaveRun(label, pid, clock)]
    /\ clock' = clock + 1

\* update_run: read the entry, merge the given fields, stamp finished_at, write
\* (path.read_text raises when the file does not exist)
Update ==
  \E i \in RunIds, st \in Statuses, res \in UpdateResults, lg \in UpdateLogs :
    /\ IsEntry(store[i])
    /\ store' = [store EXCEPT ![i] = UpdateRun(store[i], st, res, lg)]
    /\ UNCHANGED clock

\* clear_history(): every *.json file under HISTORY_DIR is unlinked,
\* readable or corrupt alike
ClearHistory ==
  /\ store' = [i \in RunIds |-> NoRecord]
  /\ UNCHANGED clock

\* What else a history file may hold: invalid JSON, bytes that are not UTF-8,
\* or JSON that is not an object (a list, a number, null)
FileKinds == {"invalid_json", "undecodable", "non_record"}

RECURSIVE SortByStartDesc(_, _)
\* entries.sort(key=lambda e: e.get("started_at", ""), reverse=True), on ids
SortByStartDesc(ids, st) ==
  IF ids = {} THEN << >>
  ELSE LET m == CHOOSE i \in ids : \A j \in ids : st[j].started_at <= st[i].started_at
       IN <<m>> \o SortByStartDesc(ids \ {m}, st)

\* list_runs(): read_text raises UnicodeDecodeError (not caught) on bytes that
\* are not UTF-8; JSONDecodeError is skipped; a non-object value is appended and
\* makes the sort key's e.get raise AttributeError
ListRunsOut(st) ==
  LET files == {i \in RunIds : st[i] # NoRecord}
      bad == {i \in files : ~IsEntry(st[i]) /\ st[i].file \in {"undecodable", "non_record"}}
      entries == {i \in files : IsEntry(st[i])}
  IN IF bad # {} THEN [kind |-> "raised", ids |-> << >>]
     ELSE [kind |-> "ok", ids |-> SortByStartDesc(entries, st)]

\* listing: what the last list_runs call gave
VARIABLES listing

histVars == <<listing>>

HistInit == listing = [kind |-> "none", ids |-> << >>]

\* A history file gets garbage (a torn write, a hand edit, a stray file)
Corrupt ==
  /\ \E i \in RunIds, k \in FileKinds : store' = [store EXCEPT ![i] = [file |-> k]]
  /\ UNCHANGED <<clock, listing>>

\* list_runs()
ListRuns ==
  /\ listing' = ListRunsOut(store)
  /\ UNCHANGED storeVars

\* ---------------------------------------------------------------------------
\* Configure tab run handlers (app.py): save_run, run the orchestrator through
\* run_async, then one update_run per outcome
\* ---------------------------------------------------------------------------

\* What analyze_data returns: response["message"].get("content", "")
AnalyzeReturns == {GetContent([content |-> c]) : c \in ReplyContents}

\* What query_with_tools returns: a reply's content, or the last tool result
LoopReturns == AnalyzeReturns \cup {ToolResultText(k) : k \in CallKinds \ {"malformed"}}

\* What run_prompt_analysis / run_custom_analysis / run_freeform_query return
OrchReturns == LoopReturns \cup {"Error: Prompt 'x' not found"}

\* How the orchestrator call settles: returns a value, raises an Exception,
\* or an interruption (a BaseException that is not an Exception) escapes
Outcomes == [kind : {"return"}, value : OrchReturns]
              \cup [kind : {"exception", "interrupt"}, value : {Null}]

SettleStatusNoCancel(kind) ==
  CASE kind = "return"    -> "complete"
    [] kind = "exception" -> "failed"
    [] kind = "interrupt" -> "failed"

\* The except / except / else clauses around run_async
SettleStatus(kind) ==
  CASE kind = "return"    -> "complete"
    [] kind = "exception" -> "failed"
    [] kind = "interrupt" -> "cancelled"

SettleResult(out) ==
  CASE out.kind = "return"    -> out.value
    [] out.kind = "exception" -> "**Run failed:** boom"
    [] out.kind = "interrupt" -> "**Run cancelled** - interrupted."
\* (app.py writes the cancelled text with a U+2014 em dash between
\* "**Run cancelled**" and "interrupted."; TLA+ strings are ASCII, so the
\* hyphen stands for it.)

SettleLogLine(kind) ==
  CASE kind = "return"    -> << >>
    [] kind = "exception" -> <<"[ERROR] boom">>
    [] kind = "interrupt" -> <<"[CANCELLED] Run interrupted">>

\* Streamlit sessions (browser tabs), each running the Configure tab handler
\* in its own script thread on run ids of its own
Sessions == {"s1", "s2"}

\* Bound on the on_status lines the orchestrator logs in one run
MaxLogLines == 4

\* rpc[s]: position of session s's handler in its current script run
\*   idle / created (save_run done) / working (the orchestrator has made a
\*   backend or tool call) / writing (update_run has read the file) / rerun
\*   (st.rerun after the update) / reraised / crashed (FileNotFoundError)
\* cur[s]: the run id of its current run; runLog[s]: its in-memory log list;
\* readEntry[s]: the entry update_run read; updates[i]: update_run calls on
\* run i; outcome[i]: how its orchestrator call settled; worked[i]: its
\* orchestrator began work; cleared: runs whose record Clear History deleted
VARIABLES rpc, cur, runLog, updates, outcome, worked, cleared, readEntry

runVars == <<rpc, cur, runLog, updates, outcome, worked, cleared, readEntry>>

RunInit ==
  /\ rpc = [s \in Sessions |-> "idle"]
  /\ cur = [s \in Sessions |-> 0]
  /\ runLog = [s \in Sessions |-> << >>]
  /\ updates = [i \in RunIds |-> 0]
  /\ outcome = [i \in RunIds |-> [kind |-> "none", value |-> Null]]
  /\ worked = [i \in RunIds |-> FALSE]
  /\ cleared = {}
  /\ readEntry = [s \in Sessions |-> NoRecord]

\* Run button clicked in session s: log = [], run_id = save_run(label,
\* prompt_id=...); run ids (timestamp, then uuid4) are in the order of the
\* save_run calls and never reused, so the i-th run gets id i
StartRun ==
  \E s \in Sessions :
    /\ rpc[s] \in {"idle", "rerun", "reraised", "crashed"}
    /\ clock \in RunIds
    /\ \E label \in Labels, pid \in PromptIds :
         LET i == clock IN
         /\ store' = [store EXCEPT ![i] = SaveRun(label, pid, clock)]
         /\ clock' = clock + 1
         /\ cur' = [cur EXCEPT ![s] = i]
         /\ runLog' = [runLog EXCEPT ![s] = << >>]
         /\ rpc' = [rpc EXCEPT ![s] = "created"]
    /\ UNCHANGED <<updates, outcome, worked, cleared, readEntry>>

\* Inside run_async: the orchestrator calls on_status, which appends the
\* line to log (banners, "Starting", progress, "[ERROR] ..." lines of the
\* orchestrator; before or after its backend and tool calls)
LogStatus ==
  \E s \in Sessions :
    /\ rpc[s] \in {"created", "working"}
    /\ Len(runLog[s]) < MaxLogLines
    /\ runLog' = [runLog EXCEPT ![s] = Append(runLog[s], "status")]
    /\ UNCHANGED <<store, clock, rpc, cur, updates, outcome, worked, cleared, readEntry>>

\* Inside run_async: the orchestrator makes its first backend or tool call
OrchWork ==
  \E s \in Sessions :
    /\ rpc[s] = "created"
    /\ rpc' = [rpc EXCEPT ![s] = "working"]
    /\ worked' = [worked EXCEPT ![cur[s]] = TRUE]
    /\ UNCHANGED <<store, clock, cur, runLog, updates, outcome, cleared, readEntry>>

\* run_async settles; the matching clause appends to the log and calls
\* update_run once, whose first step is entry = json.loads(path.read_text())
Settle ==
  \E s \in Sessions :
    /\ rpc[s] \in {"created", "working"}
    /\ \E out \in Outcomes :
         LET i == cur[s] IN
         /\ runLog' = [runLog EXCEPT ![s] = runLog[s] \o SettleLogLine(out.kind)]
         /\ updates' = [updates EXCEPT ![i] = updates[i] + 1]
         /\ outcome' = [outcome EXCEPT ![i] = out]
         /\ IF store[i] = NoRecord
              \* the file was removed by Clear History: read_text raises
              \* FileNotFoundError, which escapes the clause
              THEN /\ rpc' = [rpc EXCEPT ![s] = "crashed"]
                   /\ UNCHANGED readEntry
              ELSE /\ readEntry' = [readEntry EXCEPT ![s] = store[i]]
                   /\ rpc' = [rpc EXCEPT ![s] = "writing"]
    /\ UNCHANGED <<store, clock, cur, worked, cleared>>

\* the rest of update_run: the fields are set on the entry read and
\* path.write_text writes it (re-creating the file if it was cleared
\* meanwhile); then st.rerun() (complete, failed) or raise (cancelled)
SettleWrite ==
  \E s \in Sessions :
    /\ rpc[s] = "writing"
    /\ LET out == outcome[cur[s]] IN
         /\ store' = [store EXCEPT ![cur[s]] =
                        UpdateRun(readEntry[s], SettleStatus(out.kind), SettleResult(out),
                                  LogOf(runLog[s]))]
         /\ rpc' = [rpc EXCEPT ![s] = IF out.kind = "interrupt" THEN "reraised" ELSE "rerun"]
    /\ readEntry' = [readEntry EXCEPT ![s] = NoRecord]
    /\ UNCHANGED <<clock, cur, runLog, updates, outcome, worked, cleared>>

\* History tab "Clear History" button, pressed in any session at any point
\* of the runs: clear_history() deletes every record
RunClearHistory ==
  /\ ClearHistory
  /\ cleared' = cleared \cup {i \in RunIds : store[i] # NoRecord}
  /\ UNCHANGED <<rpc, cur, runLog, updates, outcome, worked, readEntry>>

\* ---------------------------------------------------------------------------
\* Remote Tool Session: mcp_client.ArmisMCPClient used as `async with`
\* ---------------------------------------------------------------------------

\* Bound on the number of operations a session body performs
MaxOps == 3

\* Bound on the number of content parts of one tool result
MaxParts == 2

\* Tool descriptors: name and the property names of inputSchema, in order
\* (t2 has no inputSchema, so no properties)
T1 == [name |-> "t1", props |-> <<"foo", "question">>]
T2 == [name |-> "t2", props |-> << >>]

\* Tool listings the server may return (listing order)
ToolLists == {<< >>, <<T1>>, <<T2, T1>>}

\* The candidate argument names query() tries, in order
QueryParamCandidates == <<"query", "prompt", "question", "input", "text", "message">>

Range(sq) == {sq[i] : i \in DOMAIN sq}

RECURSIVE FirstCandidate(_, _)
\* for candidate in [...]: if candidate in properties: param_name = candidate; break
FirstCandidate(cands, props) ==
  IF Len(cands) = 0 THEN Null
  ELSE IF Head(cands) \in Range(props) THEN Head(cands)
  ELSE FirstCandidate(Tail(cands), props)

RECURSIVE FirstDeclaredCandidate(_)
FirstDeclaredCandidate(props) ==
  IF Len(props) = 0 THEN Null
  ELSE IF Head(props) \in Range(QueryParamCandidates) THEN Head(props)
  ELSE FirstDeclaredCandidate(Tail(props))

SelectParamDeclOrder(props) ==
  LET c == FirstDeclaredCandidate(props) IN
  IF c # Null THEN c ELSE IF Len(props) > 0 THEN props[1] ELSE "query"

QueryToolLast(ts) == ts[Len(ts)]

\* query(): tool = tools[0]
QueryTool(ts) == ts[1]

\* query(): the argument name chosen from the first tool's properties
SelectParam(props) ==
  LET c == FirstCandidate(QueryParamCandidates, props) IN
  IF c # Null THEN c ELSE IF Len(props) > 0 THEN props[1] ELSE "query"

\* Content parts of a CallToolResult: text parts, and a part without .text
Parts == {[hasText |-> TRUE, text |-> "a"], [hasText |-> TRUE, text |-> "b"],
          [hasText |-> FALSE, text |-> "img"]}

PartSeqs == UNION {[1..n -> Parts] : n \in 0..MaxParts}

\* session.call_tool outcomes: a CallToolResult, or the request raising
CallResults == [kind : {"result"}, isError : BOOLEAN, content : PartSeqs]
                 \cup [kind : {"raise"}, isError : {TRUE}, content : {<< >>}]

\* item.text if hasattr(item, "text") else str(item)
PartText(p) == IF p.hasText THEN p.text ELSE "ImageContent(" \o p.text \o ")"

RECURSIVE JoinParts(_)
\* "\n".join(parts)
JoinParts(ps) ==
  IF Len(ps) = 0 THEN ""
  ELSE IF Len(ps) = 1 THEN PartText(Head(ps))
  ELSE PartText(Head(ps)) \o "\n" \o JoinParts(Tail(ps))

\* call_tool: the string it returns, or the exception it raises
CallToolOut(res) ==
  IF res.kind = "raise" THEN [kind |-> "error", text |-> "McpError"]
  ELSE IF Len(res.content) > 0 THEN [kind |-> "text", text |-> JoinParts(res.content)]
  ELSE [kind |-> "text", text |-> ""]

ListToolsOpNoCache(cache, remote) == [value |-> remote, fetched |-> 1]

\* list_tools: fetch only while the cache is None
ListToolsOp(cache, remote) ==
  IF cache = Null THEN [value |-> remote, fetched |-> 1]
  ELSE [value |-> cache, fetched |-> 0]

\* mcp_tool_to_ollama, on tool names
McpToolToOllama(t) == [type |-> "function", name |-> t.name, parameters |-> t.props]

OllamaTools(ts) == [i \in DOMAIN ts |-> McpToolToOllama(ts[i])]

\* spc: idle, transport (cm entered), session (session entered), initialized,
\* ready (__aenter__ returned), aborted (__aenter__ raised), closed (__aexit__ ran)
\* transportOpen / sessionOpen: the transport / ClientSession context is entered
\* and not exited; tools: the cache; remoteTools: the server's listing;
\* fetches: session.list_tools round-trips; listed: last listing returned;
\* callOut: how the last tool invocation ended; remoteFailed: whether the
\* remote side failed it; exitPath: how the body left; ops: body operations
\* invoked: the last session.call_tool request (which API made it, tool name,
\* argument names); invocations: session.call_tool requests; lastSessOp: the
\* last body operation
VARIABLES spc, transportOpen, sessionOpen, tools, remoteTools, fetches,
          listed, callOut, remoteFailed, exitPath, ops, invoked, invocations,
          lastSessOp

sessVars == <<spc, transportOpen, sessionOpen, tools, remoteTools, fetches,
              listed, callOut, remoteFailed, exitPath, ops, invoked, invocations,
              lastSessOp>>

SessInit ==
  /\ spc = "idle"
  /\ transportOpen = FALSE
  /\ sessionOpen = FALSE
  /\ tools = Null
  /\ remoteTools = <<T1>>
  /\ fetches = 0
  /\ listed = [api |-> "none", value |-> << >>]
  /\ callOut = [kind |-> "none", text |-> ""]
  /\ remoteFailed = FALSE
  /\ exitPath = "none"
  /\ ops = 0
  /\ invoked = [via |-> "none", tool |-> "none", args |-> << >>]
  /\ invocations = 0
  /\ lastSessOp = "none"

ExitPaths == {"error", "cancel"}

\* An exception or cancellation inside __aenter__ leaves `async with` without
\* calling __aexit__
AbortEnter(path) ==
  /\ spc' = "aborted"
  /\ exitPath' = path

\* self._read, self._write, _ = await self._cm.__aenter__()
EnterTransport ==
  /\ spc = "idle"
  /\ \E r \in {"ok"} \cup ExitPaths :
       IF r = "ok" THEN /\ transportOpen' = TRUE /\ spc' = "transport"
                        /\ exitPath' = exitPath
                   ELSE /\ AbortEnter(r) /\ transportOpen' = transportOpen
  /\ UNCHANGED <<sessionOpen, tools, remoteTools, fetches, listed, callOut,
                 remoteFailed, ops, invoked, invocations, lastSessOp>>

\* self._session = ClientSession(...); await self._session.__aenter__()
EnterSession ==
  /\ spc = "transport"
  /\ \E r \in {"ok"} \cup ExitPaths :
       IF r = "ok" THEN /\ sessionOpen' = TRUE /\ spc' = "session"
                        /\ exitPath' = exitPath
                   ELSE /\ AbortEnter(r) /\ sessionOpen' = sessionOpen
  /\ UNCHANGED <<transportOpen, tools, remoteTools, fetches, listed, callOut,
                 remoteFailed, ops, invoked, invocations, lastSessOp>>

\* await self._session.initialize()
Initialize ==
  /\ spc = "session"
  /\ \E r \in {"ok"} \cup ExitPaths :
       IF r = "ok" THEN /\ spc' = "initialized" /\ exitPath' = exitPath
                   ELSE AbortEnter(r)
  /\ UNCHANGED <<transportOpen, sessionOpen, tools, remoteTools, fetches, listed,
                 callOut, remoteFailed, ops, invoked, invocations, lastSessOp>>

\* tools = await self.list_tools(); report them; return self
ConnectListTools ==
  /\ spc = "initialized"
  /\ LET lt == ListToolsOp(tools, remoteTools) IN
     \E r \in {"ok"} \cup ExitPaths :
       /\ fetches' = fetches + lt.fetched
       /\ IF r = "ok" \/ lt.fetched = 0
            THEN /\ tools' = lt.value
                 /\ listed' = [api |-> "list_tools", value |-> lt.value]
                 /\ spc' = "ready"
                 /\ exitPath' = exitPath
            ELSE /\ AbortEnter(r) /\ UNCHANGED <<tools, listed>>
  /\ UNCHANGED <<transportOpen, sessionOpen, remoteTools, callOut, remoteFailed, ops, invoked, invocations, lastSessOp>>

\* The server's tool set changes (outside the program)
ServerChange ==
  /\ spc \notin {"aborted", "closed"}
  /\ \E t \in ToolLists : t # remoteTools /\ remoteTools' = t
  /\ UNCHANGED <<spc, transportOpen, sessionOpen, tools, fetches, listed, callOut,
                 remoteFailed, exitPath, ops, invoked, invocations, lastSessOp>>

\* client.list_tools() / client.get_ollama_tools() in the body
ListTools ==
  /\ spc = "ready"
  /\ ops < MaxOps
  /\ LET lt == ListToolsOp(tools, remoteTools) IN
     \E api \in {"list_tools", "get_ollama_tools"} :
       /\ fetches' = fetches + lt.fetched
       /\ tools' = lt.value
       /\ listed' = [api |-> api,
                      value |-> IF api = "list_tools" THEN lt.value
                                ELSE OllamaTools(lt.value)]
       /\ lastSessOp' = api
  /\ ops' = ops + 1
  /\ UNCHANGED <<spc, transportOpen, sessionOpen, remoteTools, callOut,
                 remoteFailed, exitPath, invoked, invocations>>

\* client.call_tool(name, arguments) in the body
CallTool ==
  /\ spc = "ready"
  /\ ops < MaxOps
  /\ \E res \in CallResults, n \in {"t1", "t2"} :
       /\ callOut' = CallToolOut(res)
       /\ remoteFailed' = (res.kind = "raise" \/ res.isError)
       /\ invoked' = [via |-> "call_tool", tool |-> n, args |-> <<"x">>]
  /\ invocations' = invocations + 1
  /\ lastSessOp' = "call_tool"
  /\ ops' = ops + 1
  /\ UNCHANGED <<spc, transportOpen, sessionOpen, tools, remoteTools, fetches,
                 listed, exitPath>>

\* client.query(text): list_tools, RuntimeError when there is none, else
\* call_tool on the first tool
Query ==
  /\ spc = "ready"
  /\ ops < MaxOps
  /\ LET lt == ListToolsOp(tools, remoteTools) IN
     /\ fetches' = fetches + lt.fetched
     /\ tools' = lt.value
     /\ IF Len(lt.value) = 0
          THEN /\ callOut' = [kind |-> "error", text |-> "No tools available on MCP server"]
               /\ remoteFailed' = FALSE
               /\ UNCHANGED <<invoked, invocations>>
          ELSE LET tool == QueryTool(lt.value) IN
               \E res \in CallResults :
                 /\ callOut' = CallToolOut(res)
                 /\ remoteFailed' = (res.kind = "raise" \/ res.isError)
                 /\ invoked' = [via |-> "query", tool |-> tool.name,
                                 args |-> <<SelectParam(tool.props)>>]
                 /\ invocations' = invocations + 1
  /\ lastSessOp' = "query"
  /\ ops' = ops + 1
  /\ UNCHANGED <<spc, transportOpen, sessionOpen, remoteTools, listed, exitPath>>

\* The body ends (success, error or cancellation) and __aexit__ runs: exit the
\* session, then the transport; when the session's __aexit__ raises, the
\* transport's is skipped
Exit ==
  /\ spc = "ready"
  /\ \E path \in {"success"} \cup ExitPaths, sessRaises \in BOOLEAN :
       /\ exitPath' = path
       /\ sessionOpen' = FALSE
       /\ transportOpen' = (transportOpen /\ sessRaises)
  /\ spc' = "closed"
  /\ UNCHANGED <<tools, remoteTools, fetches, listed, callOut, remoteFailed, ops, invoked, invocations, lastSessOp>>

\* ---------------------------------------------------------------------------
\* Text: a Python str is a sequence of tokens whose concatenation is the
\* string. "#", "-", "{", "}", backquote (BQ), ":", ".", " " and "\n" are one-character
\* tokens; other tokens are words that never contain those characters at their
\* ends, so a character-level match of the patterns used below (newlines,
\* "## ", "---", "{{name}}") is a token-level match.
\* ---------------------------------------------------------------------------

NL == "\n"
SP == " "
\* the backquote character (not writable inside a TLA+ string)
BQ == "<backquote>"

\* Python None for an optional str
NoText == <<"<None>">>

IsWS(t) == t \in {SP, NL}

MinOf(S) == CHOOSE x \in S : \A y \in S : x <= y
MaxOf(S) == CHOOSE x \in S : \A y \in S : y <= x

RECURSIVE LStrip(_)
LStrip(s) == IF s # << >> /\ IsWS(Head(s)) THEN LStrip(Tail(s)) ELSE s

RECURSIVE RStrip(_)
RStrip(s) == IF s # << >> /\ IsWS(s[Len(s)]) THEN RStrip(SubSeq(s, 1, Len(s) - 1)) ELSE s

\* str.strip()
Strip(s) == RStrip(LStrip(s))

RECURSIVE LStripNL(_)
\* str.lstrip("\n")
LStripNL(s) == IF s # << >> /\ Head(s) = NL THEN LStripNL(Tail(s)) ELSE s

\* p occurs in s at position i
At(s, i, p) == i >= 1 /\ i + Len(p) - 1 <= Len(s) /\ SubSeq(s, i, i + Len(p) - 1) = p

\* str.find(p, i - 1) + 1 (0 when absent)
IndexFrom(s, p, i) ==
  LET c == {j \in i..Len(s) : At(s, j, p)} IN IF c = {} THEN 0 ELSE MinOf(c)

RECURSIVE ReplaceAll(_, _, _)
\* str.replace(p, v): every non-overlapping occurrence, left to right
ReplaceAll(s, p, v) ==
  IF Len(s) < Len(p) THEN s
  ELSE IF At(s, 1, p) THEN v \o ReplaceAll(SubSeq(s, Len(p) + 1, Len(s)), p, v)
  ELSE <<Head(s)>> \o ReplaceAll(Tail(s), p, v)

RECURSIVE SplitNL(_)
\* str.split("\n")
SplitNL(s) ==
  LET i == IndexFrom(s, <<NL>>, 1) IN
  IF i = 0 THEN <<s>> ELSE <<SubSeq(s, 1, i - 1)>> \o SplitNL(SubSeq(s, i + 1, Len(s)))

RECURSIVE JoinNL(_)
\* "\n".join(lines)
JoinNL(ls) ==
  IF ls = << >> THEN << >>
  ELSE IF Len(ls) = 1 THEN Head(ls)
  ELSE Head(ls) \o <<NL>> \o JoinNL(Tail(ls))

RECURSIVE Concat(_)
\* the Python string a token sequence stands for
Concat(s) == IF s = << >> THEN "" ELSE Head(s) \o Concat(Tail(s))

\* str.lower() on one token
LowerTok(t) ==
  CASE t = "None" -> "none"
    [] t = "N/A" -> "n/a"
    [] t = "No tools needed" -> "no tools needed"
    [] t = "LLM-only" -> "llm-only"
    [] t = "Tools" -> "tools"
    [] t = "Foo" -> "foo"
    [] OTHER -> t

Lower(s) == [i \in DOMAIN s |-> LowerTok(s[i])]

\* Lower-case word tokens containing "no tools" / "llm-only" (the vocabulary
\* has no way to spell these phrases across tokens)
HasNoToolsPhrase(t) == t \in {"no tools needed", "no tools"}
HasLlmOnlyPhrase(t) == t \in {"llm-only", "llm-only mode"}

\* Tokens made only of \w characters, and \w[\w-]* words
WordToks == {"a", "b", "q", "x", "foo", "none", "tools", "k", "m", "v", "y",
             "find", "AA", "BB", "armis-mcp"}

HeaderTok(name) == <<"#", "#", SP, name>>

\* Positions where `^## <name>\s*\n` matches (MULTILINE ^)
RECURSIVE WSRunEnd(_, _)
WSRunEnd(c, q) == IF q <= Len(c) /\ IsWS(c[q]) THEN WSRunEnd(c, q + 1) ELSE q

\* \s* is greedy and backs off to the last "\n" of the whitespace run
GroupStart(c, p, name) ==
  LET q == p + Len(HeaderTok(name))
      nls == {j \in q..(WSRunEnd(c, q) - 1) : c[j] = NL}
  IN IF nls = {} THEN 0 ELSE MaxOf(nls) + 1

HeaderMatches(c, name) ==
  {p \in 1..Len(c) : /\ (p = 1 \/ c[p - 1] = NL)
                     /\ At(c, p, HeaderTok(name))
                     /\ GroupStart(c, p, name) > 0}

\* _extract_section: re.search(r"^## name\s*\n(.*?)(?=\n## |\Z)", DOTALL|MULTILINE)
ExtractSection(c, name) ==
  LET ps == HeaderMatches(c, name) IN
  IF ps = {} THEN NoText
  ELSE LET g == GroupStart(c, MinOf(ps), name)
           e == MinOf({k \in g..(Len(c) + 1) :
                         k = Len(c) + 1 \/ At(c, k, <<NL, "#", "#", SP>>)})
       IN Strip(SubSeq(c, g, e - 1))

\* re.search(r"^## Analysis Prompt\s*\n(.*)", DOTALL|MULTILINE): group(1).strip(),
\* or NoText when there is no match
AnalysisMatch(c) ==
  LET ps == HeaderMatches(c, "Analysis Prompt") IN
  IF ps = {} THEN NoText
  ELSE Strip(SubSeq(c, GroupStart(c, MinOf(ps), "Analysis Prompt"), Len(c)))

DASH3 == <<"-", "-", "-">>

\* _parse_frontmatter(text)[1]: the body
FrontmatterBody(text) ==
  IF ~At(text, 1, DASH3) THEN text
  ELSE LET e == IndexFrom(text, DASH3, 4) IN
       IF e = 0 THEN text ELSE LStripNL(SubSeq(text, e + 3, Len(text)))

\* ---------------------------------------------------------------------------
\* Tools section: prompts.extract_tools and the loop in prompts.parse_content
\* ---------------------------------------------------------------------------

\* line in ("none", "none.", "n/a", "-") or "no tools" in line or "llm-only" in line
IsToolsOverride(l) ==
  \/ Concat(l) \in {"none", "none.", "n/a", "-"}
  \/ \E i \in DOMAIN l : HasNoToolsPhrase(l[i]) \/ HasLlmOnlyPhrase(l[i])

RECURSIVE WordRun(_)
\* [\w-]* from the start of s
WordRun(s) ==
  IF s # << >> /\ (Head(s) \in WordToks \/ Head(s) = "-")
    THEN <<Head(s)>> \o WordRun(Tail(s)) ELSE << >>

\* re.match(r"-\s*`?(\w[\w-]*)`?", line).group(1), or "" when no match
ToolMatch(l) ==
  IF l = << >> \/ Head(l) # "-" THEN ""
  ELSE LET r1 == LStrip(Tail(l))
           r2 == IF r1 # << >> /\ Head(r1) = BQ THEN Tail(r1) ELSE r1
       IN IF r2 # << >> /\ Head(r2) \in WordToks
            THEN Concat(<<Head(r2)>> \o WordRun(Tail(r2))) ELSE ""

RECURSIVE ToolsFromLinesSkip(_, _)
ToolsFromLinesSkip(ls, acc) ==
  IF ls = << >> THEN acc
  ELSE LET l == Lower(Strip(Head(ls))) IN
       IF IsToolsOverride(l) THEN ToolsFromLinesSkip(Tail(ls), acc)
       ELSE ToolsFromLinesSkip(Tail(ls),
                               IF ToolMatch(l) # "" THEN Append(acc, ToolMatch(l)) ELSE acc)

RECURSIVE ToolsFromLines(_, _)
\* extract_tools: the loop over the section's lines (return [] on an override)
ToolsFromLines(ls, acc) ==
  IF ls = << >> THEN acc
  ELSE LET l == Lower(Strip(Head(ls))) IN
       IF IsToolsOverride(l) THEN << >>
       ELSE ToolsFromLines(Tail(ls),
                           IF ToolMatch(l) # "" THEN Append(acc, ToolMatch(l)) ELSE acc)

\* extract_tools(prompt_id) on the loaded template body
ExtractTools(t) ==
  LET sec == ExtractSection(t, "Tools") IN
  IF sec = NoText \/ sec = << >> THEN << >> ELSE ToolsFromLines(SplitNL(sec), << >>)

RECURSIVE ContentToolsLoop(_, _)
\* parse_content: the loop over the section's lines (tools = []; break)
ContentToolsLoop(ls, acc) ==
  IF ls = << >> THEN acc
  ELSE LET l == Lower(Strip(Head(ls))) IN
       IF IsToolsOverride(l) THEN << >>
       ELSE ContentToolsLoop(Tail(ls),
                             IF ToolMatch(l) # "" THEN Append(acc, ToolMatch(l)) ELSE acc)

\* parse_content(content).tools
ParseContentTools(t) ==
  LET sec == ExtractSection(t, "Tools") IN
  IF sec = NoText \/ sec = << >> THEN << >> ELSE ContentToolsLoop(SplitNL(sec), << >>)

\* ---------------------------------------------------------------------------
\* query() argument selection on one input schema
\* ---------------------------------------------------------------------------

\* Bound on the number of properties of an input schema
MaxProps == 3

PropNames == {"foo", "question", "query", "text", "bar"}

\* Property name sequences without repetition (dict keys, insertion order)
PropSeqs == {sq \in UNION {[1..n -> PropNames] : n \in 0..MaxProps} :
               \A i, j \in DOMAIN sq : i # j => sq[i] # sq[j]}

VARIABLES schemaProps, chosen

paramVars == <<schemaProps, chosen>>

\* Outside ParamSpec the schema is left empty
ParamInit0 ==
  /\ schemaProps = << >>
  /\ chosen = Null

ParamInit ==
  /\ schemaProps \in PropSeqs
  /\ chosen = Null

\* query(): param_name from the first tool's inputSchema properties
ChooseParam ==
  /\ chosen = Null
  /\ chosen' = SelectParam(schemaProps)
  /\ UNCHANGED schemaProps

\* ---------------------------------------------------------------------------
\* Prompt text processing: one input text, its generator data, two outputs
\* ---------------------------------------------------------------------------

VARIABLES txtIn, txtAux, outA, outB

textVars == <<txtIn, txtAux, outA, outB>>

\* an output not yet computed
NotRun == <<"<not run>">>

\* Outside the text specifications the input is empty
TextInit0 ==
  /\ txtIn = << >>
  /\ txtAux = [lines |-> << >>]
  /\ outA = NotRun
  /\ outB = NotRun

MaxToolLines == 2

\* Lines a Tools section may hold
ToolLineChoices ==
  { <<"-", SP, "a">>, <<"-", SP, BQ, "armis-mcp", BQ>>, <<"None">>,
    <<SP, "N/A">>, <<"-">>, <<"No tools needed">>, <<"LLM-only">>,
    <<"none", ".">>, <<"foo">>, <<"-", SP, "none">> }

ToolLineSeqs == UNION {[1..n -> ToolLineChoices] : n \in 1..MaxToolLines}

\* What follows the Tools section in the template
ToolsTrailers == { << >>, <<NL, NL, "#", "#", SP, "MCP Query", NL, "q">> }

ToolsTemplate(ls, tr) == HeaderTok("Tools") \o <<NL>> \o JoinNL(ls) \o tr

ToolsInit ==
  \E ls \in ToolLineSeqs, tr \in ToolsTrailers :
    /\ txtAux = [lines |-> ls]
    /\ txtIn = ToolsTemplate(ls, tr)
    /\ outA = NotRun
    /\ outB = NotRun

\* extract_tools(prompt_id) on the template loaded from the catalog
RunExtractTools ==
  /\ outA = NotRun
  /\ outA' = ExtractTools(txtIn)
  /\ UNCHANGED <<txtIn, txtAux, outB>>

\* parse_content(template).tools
RunParseContentTools ==
  /\ outB = NotRun
  /\ outB' = ParseContentTools(txtIn)
  /\ UNCHANGED <<txtIn, txtAux, outA>>

\* ---------------------------------------------------------------------------
\* {{name}} substitution: prompts.parse_prompt and prompts.build_prompt
\* ---------------------------------------------------------------------------

\* f"{{{{{key}}}}}", i.e. the text {{key}}
Ph(k) == <<"{", "{", k, "}", "}">>

RECURSIVE SubstVars(_, _)
\* for key, value in variables.items(): template = template.replace("{{key}}", value)
SubstVars(t, kvs) ==
  IF kvs = << >> THEN t
  ELSE SubstVars(ReplaceAll(t, Ph(Head(kvs).k), Head(kvs).v), Tail(kvs))

MaxSubstChunks == 2

VarKeys == {"a", "b"}

\* Pieces templates and values are made of
SubstChunks == { Ph("a"), Ph("b"), <<"x">>, <<"{">> }

RECURSIVE Flatten(_)
Flatten(cs) == IF cs = << >> THEN << >> ELSE Head(cs) \o Flatten(Tail(cs))

SubstTemplates == { Flatten(cs) : cs \in UNION {[1..n -> SubstChunks] : n \in 0..MaxSubstChunks} }

VarValues == { << >>, <<"x">>, Ph("a"), Ph("b") }

\* variables dicts, in insertion order (distinct keys)
VarMaps ==
  { kv \in UNION {[1..n -> [k : VarKeys, v : VarValues]] : n \in 1..Cardinality(VarKeys)} :
      \A i, j \in DOMAIN kv : i # j => kv[i].k # kv[j].k }

SubstInit ==
  \E t \in SubstTemplates, kv \in VarMaps :
    /\ txtIn = t
    /\ txtAux = [kvs |-> kv]
    /\ outA = NotRun
    /\ outB = NotRun

\* parse_prompt(prompt_id, **variables): full_content after substitution
ParsePromptSubst ==
  /\ outA = NotRun
  /\ outA' = SubstVars(txtIn, txtAux.kvs)
  /\ UNCHANGED <<txtIn, txtAux, outB>>

\* build_prompt(prompt_id, **variables)
BuildPromptSubst ==
  /\ outB = NotRun
  /\ outB' = SubstVars(txtIn, txtAux.kvs)
  /\ UNCHANGED <<txtIn, txtAux, outA>>

\* ---------------------------------------------------------------------------
\* Section parsing: prompts.parse_prompt and prompts.parse_content
\* ---------------------------------------------------------------------------

\* analysis_prompt: the Analysis Prompt match, else the whole template
AnalysisPrompt(t) == IF AnalysisMatch(t) = NoText THEN t ELSE AnalysisMatch(t)

\* <<mcp_query, analysis_prompt>> of parse_prompt / parse_content
ParsedSections(t) == <<ExtractSection(t, "MCP Query"), AnalysisPrompt(t)>>

MaxParseChunks == 3

ParseChunks ==
  { HeaderTok("MCP Query") \o <<NL>>, HeaderTok("Analysis Prompt") \o <<NL>>,
    <<"x">>, <<NL>>, <<SP>> }

ParseTemplates == { Flatten(cs) : cs \in UNION {[1..n -> ParseChunks] : n \in 0..MaxParseChunks} }

ParseInit ==
  \E t \in ParseTemplates :
    /\ txtIn = t
    /\ txtAux = [kvs |-> << >>]
    /\ outA = NotRun
    /\ outB = NotRun

\* parse_prompt(prompt_id) with no variables
ParsePromptSections ==
  /\ outA = NotRun
  /\ outA' = ParsedSections(txtIn)
  /\ UNCHANGED <<txtIn, txtAux, outB>>

\* parse_content(content)
ParseContentSections ==
  /\ outB = NotRun
  /\ outB' = ParsedSections(txtIn)
  /\ UNCHANGED <<txtIn, txtAux, outA>>

\* ---------------------------------------------------------------------------
\* Fetched-data substitution: main.run_prompt_analysis / run_custom_analysis
\* ---------------------------------------------------------------------------

DataPlaceholders == <<"device_data", "data", "mcp_data", "result">>

NoDataFallback == <<"No data returned from Armis.">>

\* if not mcp_data.strip(): mcp_data = "No data returned from Armis."
FetchedOrFallback(f) == IF Strip(f) = << >> THEN NoDataFallback ELSE f

RECURSIVE FillPlaceholders(_, _, _)
\* for placeholder in [...]: analysis_prompt = analysis_prompt.replace("{{placeholder}}", mcp_data)
FillPlaceholders(a, ps, d) ==
  IF ps = << >> THEN a ELSE FillPlaceholders(ReplaceAll(a, Ph(Head(ps)), d), Tail(ps), d)

AnalysisWithData(a, f) == FillPlaceholders(a, DataPlaceholders, FetchedOrFallback(f))

MaxFillChunks == 2

FillChunks == { Ph("device_data"), Ph("data"), Ph("mcp_data"), Ph("result"), <<"x">> }

FillTemplates == { Flatten(cs) : cs \in UNION {[1..n -> FillChunks] : n \in 0..MaxFillChunks} }

\* text the MCP query returns
FetchedTexts == { << >>, <<SP, NL>>, <<"no risk">>, Ph("result") \o <<"x">> }

FillInit ==
  \E a \in FillTemplates, f \in FetchedTexts :
    /\ txtIn = a
    /\ txtAux = [fetched |-> f]
    /\ outA = NotRun
    /\ outB = NotRun

\* run_prompt_analysis: the analysis prompt handed to analyze_data
PromptAnalysisFill ==
  /\ outA = NotRun
  /\ outA' = AnalysisWithData(txtIn, txtAux.fetched)
  /\ UNCHANGED <<txtIn, txtAux, outB>>

\* run_custom_analysis: the analysis prompt handed to analyze_data
CustomAnalysisFill ==
  /\ outB = NotRun
  /\ outB' = AnalysisWithData(txtIn, txtAux.fetched)
  /\ UNCHANGED <<txtIn, txtAux, outA>>

\* ---------------------------------------------------------------------------
\* Raw text of a parse: ParsedPrompt.full_content
\* ---------------------------------------------------------------------------

\* parse_prompt(prompt_id).full_content for a prompt file holding f (no variables):
\* load_prompt strips the frontmatter
PromptFullContent(f) == FrontmatterBody(f)

\* parse_content(content).full_content
ContentFullContent(c) == c

MaxFmChunks == 4

FmChunks == { DASH3, <<NL>>, <<"x">>, <<"-">> }

FmTexts == { Flatten(cs) : cs \in UNION {[1..n -> FmChunks] : n \in 0..MaxFmChunks} }

ReparseInit ==
  \E f \in FmTexts, api \in {"prompt", "content"} :
    /\ txtIn = f
    /\ txtAux = [api |-> api]
    /\ outA = NotRun
    /\ outB = NotRun

\* parse_prompt on the prompt file
ParsePromptRaw ==
  /\ txtAux.api = "prompt"
  /\ outA = NotRun
  /\ outA' = PromptFullContent(txtIn)
  /\ UNCHANGED <<txtIn, txtAux, outB>>

\* parse_prompt on a prompt file holding the first parse's full_content
ReparsePromptRaw ==
  /\ txtAux.api = "prompt"
  /\ outA # NotRun
  /\ outB = NotRun
  /\ outB' = PromptFullContent(outA)
  /\ UNCHANGED <<txtIn, txtAux, outA>>

\* parse_content on the text
ParseContentRaw ==
  /\ txtAux.api = "content"
  /\ outA = NotRun
  /\ outA' = ContentFullContent(txtIn)
  /\ UNCHANGED <<txtIn, txtAux, outB>>

\* parse_content on the first parse's full_content
ReparseContentRaw ==
  /\ txtAux.api = "content"
  /\ outA # NotRun
  /\ outB = NotRun
  /\ outB' = ContentFullContent(outA)
  /\ UNCHANGED <<txtIn, txtAux, outA>>

\* ---------------------------------------------------------------------------
\* Catalog save: prompts.save_custom_prompt
\* ---------------------------------------------------------------------------

RECURSIVE StripDashes(_)
\* .strip("-")
StripDashes(p) ==
  IF p = << >> THEN p
  ELSE IF Head(p) = "-" THEN StripDashes(Tail(p))
  ELSE IF p[Len(p)] = "-" THEN StripDashes(SubSeq(p, 1, Len(p) - 1))
  ELSE p

\* re.sub(r"[^a-z0-9-]", "", prompt_id.lower().replace(" ", "-")).strip("-")
\* (the ids the editor accepts are already [a-z0-9-]+)
SanitizeId(p) == StripDashes(p)

\* f"---\nid: {prompt_id}\nname: {name}\ndescription: {desc}\n---\n\n"
FreshHeader(id, nm, desc) ==
  DASH3 \o <<NL, "id", ":", SP>> \o id \o <<NL, "name", ":", SP>> \o nm
        \o <<NL, "description", ":", SP>> \o desc \o <<NL>> \o DASH3 \o <<NL, NL>>

\* desc = description or "Custom prompt"
SaveDesc(d) == IF d = << >> THEN <<"Custom prompt">> ELSE d

\* frontmatter + body, body being the content without its frontmatter
SavedText(id, nm, d, content) ==
  FreshHeader(SanitizeId(id), nm, SaveDesc(d)) \o FrontmatterBody(content)

MaxSaves == 2

\* ids matching [a-z0-9-]+, as the editor requires
SaveIds == { <<"a">>, <<"a", "-", "-", "-", "b">> }

SaveNames == { <<"N">>, <<"M", "-", "-", "-", "x">> }

SaveDescs == { << >>, <<"d">> }

\* editor content of the first save
SaveContents ==
  { << >>, <<"#", SP, "x">>, DASH3 \o <<NL, "x">>,
    FreshHeader(<<"z">>, <<"N">>, <<"d">>) \o <<"x">> }

SaveInit ==
  \E c \in SaveContents :
    /\ txtIn = c
    /\ txtAux = [saves |-> 0, id |-> << >>, name |-> << >>, desc |-> << >>]
    /\ outA = NotRun
    /\ outB = NotRun

\* save_custom_prompt(name, content, prompt_id, description): the first save
\* takes the editor content, later ones the stored text, with its header or as
\* load_prompt returns it
SaveCustomPrompt ==
  /\ txtAux.saves < MaxSaves
  /\ \E id \in SaveIds, nm \in SaveNames, d \in SaveDescs, withHeader \in BOOLEAN :
       LET content == IF outA = NotRun THEN txtIn
                      ELSE IF withHeader THEN outA ELSE FrontmatterBody(outA)
       IN /\ outA' = SavedText(id, nm, d, content)
          /\ outB' = IF outB = NotRun THEN FrontmatterBody(content) ELSE outB
          /\ txtAux' = [saves |-> txtAux.saves + 1, id |-> SanitizeId(id),
                        name |-> nm, desc |-> SaveDesc(d)]
  /\ UNCHANGED txtIn

\* delete_custom_prompt(prompt_id) (Delete > Confirm in the catalog):
\* shutil.rmtree removes the prompt directory, so load_prompt gives None and
\* the next save starts again from the editor content; deleting an id with no
\* directory returns False and changes nothing
DeleteCustomPrompt ==
  /\ outA # NotRun
  /\ outA' = NotRun
  /\ outB' = NotRun
  /\ UNCHANGED <<txtIn, txtAux>>

\* ---------------------------------------------------------------------------
\* One model turn of query_with_tools: the inner for-loop over tool_calls,
\* each `await client.call_tool(...)` split into its start and its end
\* ---------------------------------------------------------------------------

MaxTurnCalls == 3

\* a tool_calls entry: a well-formed call that succeeds or raises, or one
\* without function/name
TurnCallKinds == {"ok", "fail", "malformed"}

TurnCallSeqs == UNION {[1..n -> TurnCallKinds] : n \in 1..MaxTurnCalls}

\* tcalls: the emitted tool_calls; tnext: index of the next entry of the for
\* loop; tinflight: indexes of the calls awaited on the session; tstarted,
\* tappended: call indexes in the order calls start and tool messages are
\* appended; tresults: contents of the appended tool messages
VARIABLES tpc, tcalls, tnext, tinflight, tstarted, tappended, tresults

turnVars == <<tpc, tcalls, tnext, tinflight, tstarted, tappended, tresults>>

TurnInit0 ==
  /\ tpc = "none"
  /\ tcalls = << >>
  /\ tnext = 1
  /\ tinflight = {}
  /\ tstarted = << >>
  /\ tappended = << >>
  /\ tresults = << >>

TurnInit ==
  /\ tpc = "calls"
  /\ tcalls \in TurnCallSeqs
  /\ tnext = 1
  /\ tinflight = {}
  /\ tstarted = << >>
  /\ tappended = << >>
  /\ tresults = << >>

\* asyncio.gather-style dispatch
CanStartCallGather(inflight) == TRUE

\* the loop body awaits the call before the next entry is taken
CanStartCall(inflight) == inflight = {}

\* func = tool_call["function"]; tool_name = func["name"]; then the call is
\* awaited (a malformed entry raises KeyError out of the loop)
StartTurnCall ==
  /\ tpc = "calls"
  /\ tnext <= Len(tcalls)
  /\ CanStartCall(tinflight)
  /\ IF tcalls[tnext] = "malformed"
       THEN /\ tpc' = "raised"
            /\ UNCHANGED <<tcalls, tnext, tinflight, tstarted, tappended, tresults>>
       ELSE /\ tinflight' = tinflight \cup {tnext}
            /\ tstarted' = Append(tstarted, tnext)
            /\ tnext' = tnext + 1
            /\ UNCHANGED <<tpc, tcalls, tappended, tresults>>

\* the awaited call_tool returns or raises; the result or the error text is
\* appended as a tool message
FinishTurnCall ==
  /\ tpc = "calls"
  /\ \E i \in tinflight :
       /\ tinflight' = tinflight \ {i}
       /\ tappended' = Append(tappended, i)
       /\ tresults' = Append(tresults,
                             IF tcalls[i] = "ok" THEN "data" ELSE "Error calling tool: boom")
       /\ tpc' = IF tnext > Len(tcalls) /\ tinflight' = {} THEN "done" ELSE "calls"
  /\ UNCHANGED <<tcalls, tnext, tstarted>>

\* ---------------------------------------------------------------------------
\* ArmisMCPClient._with_heartbeat: the caller's task and the heartbeat task
\* as event-loop steps
\* ---------------------------------------------------------------------------

\* heartbeat wake-ups before the call settles
MaxBeats == 2

\* call_tool invocations in sequence
MaxHbCalls == 2

\* opc: the caller ("idle", "awaiting" coro, "joining" the task after cancel);
\* hb: the heartbeat task ("none", "unstarted", "sleeping" in asyncio.sleep,
\* "ready" with a step scheduled, "cancelled"); hbCancel: cancel requested
\* while a step is scheduled (_must_cancel); beats: emissions in this call;
\* emitted: emissions overall; resolved: the awaited call has settled;
\* lateEmit: an emission happened once the call had settled
VARIABLES opc, hb, hbCancel, beats, emitted, resolved, lateEmit, hbCalls, hbOutcome

hbVars == <<opc, hb, hbCancel, beats, emitted, resolved, lateEmit, hbCalls, hbOutcome>>

HbInit ==
  /\ opc = "idle"
  /\ hb = "none"
  /\ hbCancel = FALSE
  /\ beats = 0
  /\ emitted = 0
  /\ resolved = FALSE
  /\ lateEmit = FALSE
  /\ hbCalls = 0
  /\ hbOutcome = "none"

\* call_tool -> _with_heartbeat: task = asyncio.create_task(heartbeat()), then
\* await coro
StartHbCall ==
  /\ opc = "idle"
  /\ hbCalls < MaxHbCalls
  /\ opc' = "awaiting"
  /\ hb' = "unstarted"
  /\ hbCancel' = FALSE
  /\ beats' = 0
  /\ resolved' = FALSE
  /\ hbCalls' = hbCalls + 1
  /\ hbOutcome' = "none"
  /\ UNCHANGED <<emitted, lateEmit>>

\* the asyncio.sleep(interval) of a sleeping heartbeat completes
HbTimer ==
  /\ hb = "sleeping"
  /\ beats < MaxBeats
  /\ hb' = "ready"
  /\ UNCHANGED <<opc, hbCancel, beats, emitted, resolved, lateEmit, hbCalls, hbOutcome>>

\* a step of the heartbeat task: a pending cancellation is thrown in at its
\* await; otherwise after a completed sleep it emits "Still waiting", and it
\* runs on to the next asyncio.sleep
HbStep ==
  /\ hb \in {"unstarted", "ready"}
  /\ IF hbCancel
       THEN /\ hb' = "cancelled"
            /\ UNCHANGED <<beats, emitted, lateEmit>>
       ELSE /\ hb' = "sleeping"
            /\ IF hb = "ready"
                 THEN /\ beats' = beats + 1
                      /\ emitted' = emitted + 1
                      /\ lateEmit' = (lateEmit \/ resolved)
                 ELSE UNCHANGED <<beats, emitted, lateEmit>>
  /\ UNCHANGED <<opc, hbCancel, resolved, hbCalls, hbOutcome>>

CancelHeartbeatNoop(h) == [hb |-> h, req |-> FALSE]

\* task.cancel(): a sleeping task has its sleep cancelled and a step
\* scheduled that raises CancelledError; a task with a step scheduled (or
\* not yet started) gets the cancellation at that step
CancelHeartbeat(h) ==
  CASE h = "sleeping" -> [hb |-> "ready", req |-> TRUE]
    [] h \in {"unstarted", "ready"} -> [hb |-> h, req |-> TRUE]
    [] OTHER -> [hb |-> h, req |-> FALSE]

\* the awaited session.call_tool returns or raises; the finally clause calls
\* task.cancel() in the same step and then awaits the task
HbResolve ==
  /\ opc = "awaiting"
  /\ \E r \in {"ok", "fail"} :
       LET c == CancelHeartbeat(hb) IN
       /\ hbOutcome' = r
       /\ resolved' = TRUE
       /\ hb' = c.hb
       /\ hbCancel' = c.req
       /\ opc' = "joining"
  /\ UNCHANGED <<beats, emitted, lateEmit, hbCalls>>

\* await task (CancelledError swallowed), then return the result or re-raise
HbJoin ==
  /\ opc = "joining"
  /\ hb = "cancelled"
  /\ opc' = "idle"
  /\ UNCHANGED <<hb, hbCancel, beats, emitted, resolved, lateEmit, hbCalls, hbOutcome>>

\* ---------------------------------------------------------------------------
\* query_with_tools as a function of the backend's replies and the status
\* callback: each reply requests 0 tool calls (final text "txt") or some
\* calls that return "data"; the callback raises on the status messages of
\* the kinds in its set: "iter" (Iteration i/N), "exec" (Executing n tool
\* call(s)), "calling" (- Calling), "result" (- Result), "error" (- Error),
\* "max" (Max iterations reached)
\* ---------------------------------------------------------------------------

\* the callbacks: a no-op, None (print), and callbacks raising on some messages
Callbacks ==
  { [name |-> "noop", raises |-> {}], [name |-> "None", raises |-> {}],
    [name |-> "raise_iter", raises |-> {"iter"}],
    [name |-> "raise_result", raises |-> {"result"}],
    [name |-> "raise_calling", raises |-> {"calling"}],
    [name |-> "raise_max", raises |-> {"max"}] }

NoopCallback == [name |-> "noop", raises |-> {}]

\* requested tool calls of each reply
ReplyCallCounts == {0, 1}

RECURSIVE QwtCalls(_, _, _, _)
\* the inner for-loop over n tool calls, call_tool returning "data": an
\* exception of on_status inside the try is caught like a tool failure
QwtCalls(n, cb, cs, nCalls) ==
  IF n = 0 THEN [raised |-> FALSE, contents |-> cs, calls |-> nCalls]
  ELSE IF "calling" \in cb.raises
    THEN [raised |-> TRUE, contents |-> cs, calls |-> nCalls]
  ELSE IF "result" \in cb.raises
    THEN IF "error" \in cb.raises
           THEN [raised |-> TRUE, contents |-> cs, calls |-> nCalls + 1]
           ELSE QwtCalls(n - 1, cb, Append(cs, "Error calling tool: status"), nCalls + 1)
  ELSE QwtCalls(n - 1, cb, Append(cs, "data"), nCalls + 1)

QwtResult(rk, rv, nChats, nCalls, cs) ==
  [kind |-> rk, ret |-> rv, chats |-> nChats, calls |-> nCalls, contents |-> cs]

RECURSIVE QwtIter(_, _, _, _, _, _)
\* the for-iteration loop from iteration it, then the truncation return
QwtIter(script, it, cb, nChats, nCalls, cs) ==
  IF it = MAX_TOOL_ITERATIONS
    THEN IF "max" \in cb.raises
           THEN QwtResult("raised", Null, nChats, nCalls, cs)
           ELSE QwtResult("returned", cs[Len(cs)], nChats, nCalls, cs)
  ELSE IF "iter" \in cb.raises
    THEN QwtResult("raised", Null, nChats, nCalls, cs)
  ELSE IF script[it + 1] = 0
    THEN QwtResult("returned", "txt", nChats + 1, nCalls, cs)
  ELSE IF "exec" \in cb.raises
    THEN QwtResult("raised", Null, nChats + 1, nCalls, cs)
  ELSE LET r == QwtCalls(script[it + 1], cb, cs, nCalls) IN
       IF r.raised THEN QwtResult("raised", Null, nChats + 1, r.calls, r.contents)
       ELSE QwtIter(script, it + 1, cb, nChats + 1, r.calls, r.contents)

\* query_with_tools(client, system_prompt, user_prompt, on_status=cb)
QueryWithTools(script, cb) == QwtIter(script, 0, cb, 0, 0, << >>)

VARIABLES cbScript, cbMode, cbOut, cbRef

cbVars == <<cbScript, cbMode, cbOut, cbRef>>

\* a run not made yet
NoRun == [kind |-> "none"]

CbInit0 ==
  /\ cbScript = << >>
  /\ cbMode = NoopCallback
  /\ cbOut = NoRun
  /\ cbRef = NoRun

CbInit ==
  /\ cbScript \in [1..MAX_TOOL_ITERATIONS -> ReplyCallCounts]
  /\ cbMode \in Callbacks
  /\ cbOut = NoRun
  /\ cbRef = NoRun

\* query_with_tools with the chosen callback
RunWithCallback ==
  /\ cbOut = NoRun
  /\ cbOut' = QueryWithTools(cbScript, cbMode)
  /\ UNCHANGED <<cbScript, cbMode, cbRef>>

\* query_with_tools with a no-op callback, same backend replies
RunWithNoop ==
  /\ cbRef = NoRun
  /\ cbRef' = QueryWithTools(cbScript, NoopCallback)
  /\ UNCHANGED <<cbScript, cbMode, cbOut>>

\* ---------------------------------------------------------------------------
\* prompts.parse_prompt with variables: tools, mcp_query, analysis_prompt
\* ---------------------------------------------------------------------------

\* parse_prompt(prompt_id, **variables): extract_tools reloads the template
\* and reads the Tools section before substitution; the MCP Query and
\* Analysis Prompt sections are read from the substituted template
ParsePromptParts(t, kvs) ==
  LET st == SubstVars(t, kvs) IN
  <<ExtractTools(t), ExtractSection(st, "MCP Query"), AnalysisPrompt(st)>>

SubToolLines ==
  { <<"-", SP, "a">>, <<"-", SP>> \o Ph("k"), Ph("k"), <<"-", SP, BQ>> \o Ph("k") \o <<BQ>> }

SubQueries == { <<"q">>, <<"find", SP>> \o Ph("k") }

SubAnalyses == { << >>, <<NL>> \o HeaderTok("Analysis Prompt") \o <<NL, "x">> }

SubVarMaps ==
  { << >>, <<[k |-> "k", v |-> <<"armis-mcp">>]>>, <<[k |-> "k", v |-> <<"none">>]>>,
    <<[k |-> "k", v |-> <<"x">>]>> }

SubTemplate(l, q, a) ==
  HeaderTok("Tools") \o <<NL>> \o l \o <<NL>> \o HeaderTok("MCP Query") \o <<NL>> \o q \o a

SubParseInit ==
  \E l \in SubToolLines, q \in SubQueries, a \in SubAnalyses, kv \in SubVarMaps :
    /\ txtIn = SubTemplate(l, q, a)
    /\ txtAux = [kvs |-> kv]
    /\ outA = NotRun
    /\ outB = NotRun

\* parse_prompt(prompt_id, **variables)
ParsePromptWithVars ==
  /\ outA = NotRun
  /\ outA' = ParsePromptParts(txtIn, txtAux.kvs)
  /\ UNCHANGED <<txtIn, txtAux, outB>>

Init == LoopInit /\ StoreInit /\ HistInit /\ RunInit /\ SessInit /\ ParamInit0 /\ TextInit0 /\ TurnInit0 /\ HbInit /\ CbInit0

vars == <<loopVars, storeVars, histVars, runVars, sessVars, paramVars, textVars, turnVars, hbVars, cbVars>>

\* ---------------------------------------------------------------------------
\* Properties of the run store, the run handlers and the tool session
\* ---------------------------------------------------------------------------

\* C4: every run the handler starts gets exactly one update_run once the
\* orchestrator call settles: complete with the returned result on return,
\* failed on an Exception, cancelled on an interruption; an interruption is
\* re-raised only once the cancelled record is written. A record that
\* Clear History has removed is exempt: update_run then finds no file and
\* FileNotFoundError escapes the handler after its one update_run call; a
\* clear between update_run's read and write re-creates the record. A record
\* whose update_run is between its read and its write is not yet settled.
\* run i's update_run has read its file and not yet written it
Writing(i) == \E s \in Sessions : rpc[s] = "writing" /\ cur[s] = i

RunLifecycle ==
  /\ \A i \in RunIds :
       (store[i] # NoRecord /\ ~Writing(i)) =>
         /\ updates[i] = (IF outcome[i].kind = "none" THEN 0 ELSE 1)
         /\ outcome[i].kind = "return"
              => (store[i].status = "complete" /\ store[i].result = outcome[i].value)
         /\ outcome[i].kind = "exception" => store[i].status = "failed"
         /\ outcome[i].kind = "interrupt" => store[i].status = "cancelled"
  /\ \A s \in Sessions :
       /\ (rpc[s] = "reraised" /\ cur[s] \notin cleared) => store[cur[s]].status = "cancelled"
       /\ rpc[s] = "crashed" => (cur[s] \in cleared /\ updates[cur[s]] = 1)

\* Witness of C4: one run completed, a later one cancelled and re-raised.
RunLifecycleWitness ==
  /\ \E s \in Sessions : rpc[s] = "reraised"
  /\ \E i \in RunIds : outcome[i].kind = "return"

\* C5: save_run writes status running, result None, an empty log and
\* finished_at None, and it is on disk before the orchestrator does any work.
\* (Clear History may delete it afterwards.)
RunCreatedBeforeWork ==
  \A i \in RunIds :
    (worked[i] \/ \E s \in Sessions : rpc[s] \in {"created", "working"} /\ i = cur[s])
      => /\ store[i] # NoRecord \/ i \in cleared
         /\ (store[i] # NoRecord /\ outcome[i].kind = "none")
              => /\ store[i].status = "running"
                 /\ store[i].result = Null
                 /\ store[i].log = << >>
                 /\ store[i].finished_at = Null

\* Witness of C5: the orchestrator is working on a run whose record is running.
RunCreatedBeforeWorkWitness ==
  \E s \in Sessions :
    /\ rpc[s] = "working"
    /\ Len(runLog[s]) >= 2
    /\ store[cur[s]].status = "running"

\* C6: update_run sets status, changes result and log only when given (not
\* None), keeps every other field, and always sets finished_at; checked on
\* every stored entry for every argument.
UpdateRunFrame ==
  \A i \in RunIds : store[i] # NoRecord =>
    \A st \in Statuses, res \in UpdateResults, lg \in UpdateLogs :
      LET b == store[i]
          a == UpdateRun(b, st, res, lg)
      IN /\ DOMAIN a = DOMAIN b
         /\ a.status = st
         /\ a.result = (IF res = Null THEN b.result ELSE res)
         /\ a.log = (IF lg.isNone THEN b.log ELSE lg.lines)
         /\ a.finished_at # Null
         /\ a.label = b.label /\ a.prompt_id = b.prompt_id
         /\ a.started_at = b.started_at

\* Witness of C6: a created record updated to complete with result "r" and
\* no log keeps its empty log.
UpdateRunFrameWitness ==
  \E i \in RunIds :
    /\ store[i] # NoRecord
    /\ store[i].status = "complete"
    /\ store[i].result = "r"
    /\ store[i].log = << >>
    /\ store[i].finished_at # Null

\* C7: every run whose orchestrator call has settled has a non-empty result
\* text in its record (once update_run has written it).
RunResultNonEmpty ==
  \A i \in RunIds :
    (store[i] # NoRecord /\ outcome[i].kind # "none" /\ ~Writing(i))
      => store[i].result \notin {Null, ""}

\* C8: whatever way the use of a session ends (including a failure while
\* connecting), the session and its transport are torn down.
SessionTornDown ==
  spc \in {"aborted", "closed"} => (~transportOpen /\ ~sessionOpen)

\* C9: the tool listing is fetched at most once per session; once connected,
\* list_tools and get_ollama_tools answer from the cached sequence.
ToolsFetchedOnce ==
  /\ [](fetches <= 1)
  /\ [][spc = "ready" =>
         /\ fetches' = fetches
         /\ tools' = tools
         /\ listed'.api = "list_tools" => listed'.value = tools
         /\ listed'.api = "get_ollama_tools" => listed'.value = OllamaTools(tools)]_vars

\* Witness of C9: the server's listing changed after connecting and
\* get_ollama_tools still answered from the cache.
ToolsFetchedOnceWitness ==
  /\ spc = "ready"
  /\ listed.api = "get_ollama_tools"
  /\ Len(listed.value) > 0
  /\ remoteTools # tools

\* C10: when the remote tool invocation fails (it raises, or its result is
\* marked isError), call_tool reports an error, not ordinary text.
RemoteFailureSurfaced == remoteFailed => callOut.kind = "error"

\* C11: the argument field is the first of query, prompt, question, input,
\* text, message that the schema declares; with none of them, the first
\* declared property; with no properties, "query".
QueryParamChoice ==
  chosen # Null =>
    LET P == Range(schemaProps)
        declared == {i \in DOMAIN QueryParamCandidates : QueryParamCandidates[i] \in P}
    IN IF declared # {}
         THEN /\ chosen \in P
              /\ \E i \in declared :
                   /\ chosen = QueryParamCandidates[i]
                   /\ \A j \in declared : i <= j
         ELSE IF P # {} THEN chosen = schemaProps[1] ELSE chosen = "query"

\* Witness of C11: fields {foo, question} select question.
QueryParamChoiceWitness ==
  /\ schemaProps = <<"foo", "question">>
  /\ chosen = "question"

\* C12: query() calls the first tool of the listing; with no tools it fails
\* with "No tools available" and makes no tool call.
QueryFirstTool ==
  [][(spc = "ready" /\ lastSessOp' = "query" /\ ops' = ops + 1) =>
       IF Len(tools') = 0
         THEN /\ callOut'.kind = "error"
              /\ callOut'.text = "No tools available on MCP server"
              /\ invocations' = invocations
         ELSE /\ invocations' = invocations + 1
              /\ invoked'.via = "query"
              /\ invoked'.tool = tools'[1].name]_vars

\* Witness of C12: query() called the first of two tools.
QueryFirstToolWitness ==
  /\ lastSessOp = "query"
  /\ Len(tools) = 2
  /\ invoked.via = "query"
  /\ invoked.tool = "t2"

\* C13: list_runs returns every readable record, newest start first, and
\* skips corrupt or unreadable files (invalid JSON, undecodable bytes, JSON
\* that is not an object) instead of failing.
RunsListed ==
  [][ListRuns =>
       /\ listing'.kind = "ok"
       /\ Range(listing'.ids) = {i \in RunIds : IsEntry(store[i])}
       /\ \A a, b \in DOMAIN listing'.ids :
            a < b => store[listing'.ids[a]].started_at > store[listing'.ids[b]].started_at]_vars

\* ---------------------------------------------------------------------------
\* Properties of prompt parsing
\* ---------------------------------------------------------------------------

\* C14: when any line of the Tools section, trimmed and lower-cased, is an
\* override marker (none, none., n/a, -, or contains "no tools" or
\* "llm-only"), both extract_tools and parse_content return an empty tool
\* list, whatever tool lines come before or after it.
ToolsOverrideHonoured ==
  (\E i \in DOMAIN txtAux.lines : IsToolsOverride(Lower(Strip(txtAux.lines[i]))))
    => /\ outA \in {NotRun, << >>}
       /\ outB \in {NotRun, << >>}

ToolsOverrideHonouredWitness ==
  /\ Len(txtAux.lines) = 2
  /\ ToolMatch(Lower(Strip(txtAux.lines[1]))) # ""
  /\ IsToolsOverride(Lower(Strip(txtAux.lines[2])))
  /\ outA = << >>
  /\ outB = << >>

RECURSIVE SimultaneousSubst(_, _)
\* one left-to-right pass replacing each {{k}} of the template by its value
SimultaneousSubst(t, kvs) ==
  IF t = << >> THEN << >>
  ELSE IF \E i \in DOMAIN kvs : At(t, 1, Ph(kvs[i].k))
    THEN LET i == CHOOSE j \in DOMAIN kvs : At(t, 1, Ph(kvs[j].k))
         IN kvs[i].v \o SimultaneousSubst(SubSeq(t, 6, Len(t)), kvs)
    ELSE <<Head(t)>> \o SimultaneousSubst(Tail(t), kvs)

\* C15: substitution is non-recursive and order-independent: the text
\* parse_prompt and build_prompt produce equals one simultaneous pass that
\* replaces each {{k}} of the template by its value.
SubstSimultaneous ==
  /\ outA \in {NotRun, SimultaneousSubst(txtIn, txtAux.kvs)}
  /\ outB \in {NotRun, SimultaneousSubst(txtIn, txtAux.kvs)}

\* the template has no line starting with "## MCP Query"
NoMcpQueryHeader ==
  ~\E p \in 1..Len(txtIn) : (p = 1 \/ txtIn[p - 1] = NL) /\ At(txtIn, p, HeaderTok("MCP Query"))

\* C16: for a template without an MCP Query section, parsing gives no
\* deterministic query (None) and a non-empty analysis text.
NoQueryNonEmptyAnalysis ==
  NoMcpQueryHeader =>
    \A o \in {outA, outB} \ {NotRun} : o[1] = NoText /\ o[2] # << >>

\* each of the four placeholders mapped to the text put in its place
FillMap(d) == [i \in 1..4 |-> [k |-> DataPlaceholders[i], v |-> d]]

\* C17: with a deterministic query, the analysis text sent to the backend is
\* the analysis text with every {{device_data}}, {{data}}, {{mcp_data}} and
\* {{result}} replaced by the fetched text (or the fallback sentence when the
\* fetched text is blank), the fetched text itself being inserted verbatim.
FetchedDataInserted ==
  \A o \in {outA, outB} \ {NotRun} :
    LET d == IF Strip(txtAux.fetched) = << >> THEN NoDataFallback ELSE txtAux.fetched
    IN o = SimultaneousSubst(txtIn, FillMap(d))

\* C18: parsing is idempotent: parsing the full_content of a parse again
\* (no variables) gives the same full_content.
ParseIdempotent == outB # NotRun => outB = outA

\* C19: after any sequence of saves of a prompt, each taking the stored text
\* (with or without its header), the stored template is exactly one fresh
\* metadata block with the latest id, name and description, followed by the
\* body of the first save.
OneMetadataBlock ==
  outA # NotRun => outA = FreshHeader(txtAux.id, txtAux.name, txtAux.desc) \o outB

\* C20: when MAX_TOOL_ITERATIONS iterations finish without a reply free of tool
\* calls, query_with_tools returns the text content of the last message of the
\* conversation; that message is always a tool-result message.
TruncationReturnsLast ==
  (lpc = "done" /\ iteration = MAX_TOOL_ITERATIONS)
    => /\ ret = lastContent
       /\ msgs[Len(msgs)].role = "tool"

TruncationReturnsLastWitness ==
  /\ lpc = "done"
  /\ iteration = MAX_TOOL_ITERATIONS
  /\ ret = "data"

\* C21: within one model turn the tool calls run one at a time in the order
\* the model emitted them: at most one call is in flight, each call ends
\* before the next starts, and the tool messages are appended in that order.
ToolCallsSequential ==
  /\ Cardinality(tinflight) <= 1
  /\ tstarted = [i \in 1..Len(tstarted) |-> i]
  /\ tappended = SubSeq(tstarted, 1, Len(tappended))
  /\ Len(tstarted) - Len(tappended) = Cardinality(tinflight)

ToolCallsSequentialWitness ==
  /\ tpc = "done"
  /\ Len(tcalls) = 3
  /\ tcalls[1] = "fail"
  /\ tappended = <<1, 2, 3>>

\* C22: the heartbeat may emit while a tool call is in flight; it is
\* cancelled and awaited whether the call succeeds or fails, before
\* call_tool returns or raises, and no heartbeat notification is emitted
\* once the call has settled.
HeartbeatStops ==
  /\ ~lateEmit
  /\ (resolved /\ opc = "idle") => hb = "cancelled"

HeartbeatStopsWitness ==
  /\ hbCalls = 2
  /\ opc = "idle"
  /\ hbOutcome = "fail"
  /\ emitted = 2 * MaxBeats

\* C23: for any status callback, including one that raises, and for None,
\* query_with_tools makes the same backend invocations and tool calls, builds
\* the same conversation and returns the same text as with a no-op callback.
CallbackIsolated == (cbOut # NoRun /\ cbRef # NoRun) => cbOut = cbRef

\* C24: variables are substituted before any section is extracted: every
\* part of the parse, the declared tools included, equals the extraction
\* from the substituted template.
SubstBeforeExtract ==
  outA # NotRun =>
    LET st == SubstVars(txtIn, txtAux.kvs) IN
    outA = <<ExtractTools(st), ExtractSection(st, "MCP Query"), AnalysisPrompt(st)>>

\* the lines starting "## name" followed only by blanks: positions of their
\* terminating newline
SectionHeaderEnds(t, name) ==
  { e \in 1..Len(t) :
      /\ t[e] = NL
      /\ \E p \in 1..e :
           /\ (p = 1 \/ t[p - 1] = NL)
           /\ At(t, p, HeaderTok(name))
           /\ \A j \in (p + Len(HeaderTok(name)))..(e - 1) : t[j] = SP }

\* content of the first "## name" section: the lines after its header up to
\* the next line starting "## " or the end of the text, stripped
SectionByClaim(t, name) ==
  LET es == SectionHeaderEnds(t, name) IN
  IF es = {} THEN NoText
  ELSE LET e == MinOf(es)
           ks == {k \in (e + 1)..Len(t) : t[k - 1] = NL /\ At(t, k, <<"#", "#", SP>>)}
           last == IF ks = {} THEN Len(t) ELSE MinOf(ks) - 2
       IN Strip(SubSeq(t, e + 1, last))

\* C25: each recognised section, Analysis Prompt included, is the text after
\* its "## <Name>" header up to the next line-start "## " header or the end of
\* the text, whatever the order of the headers.
SectionsByHeader ==
  \A o \in {outA, outB} \ {NotRun} :
    /\ o[1] = SectionByClaim(txtIn, "MCP Query")
    /\ SectionByClaim(txtIn, "Analysis Prompt") # NoText
         => o[2] = SectionByClaim(txtIn, "Analysis Prompt")

\* C26: for every record the run handlers create and update, the status is
\* running exactly when finished_at is null.
RunningIffUnfinished ==
  \A i \in RunIds :
    IsEntry(store[i]) => (store[i].status = "running" <=> store[i].finished_at = Null)

RunningIffUnfinishedWitness ==
  \E i, j \in RunIds :
    /\ IsEntry(store[i]) /\ store[i].status = "cancelled" /\ store[i].finished_at # Null
    /\ IsEntry(store[j]) /\ store[j].status = "running"

\* number of tool messages directly after message i of the conversation
ToolRunAfter(i) ==
  CHOOSE n \in 0..(Len(msgs) - i) :
    /\ \A j \in (i + 1)..(i + n) : msgs[j].role = "tool"
    /\ (i + n = Len(msgs) \/ msgs[i + n + 1].role # "tool")

\* C27 as stated: in every state the conversation is one system message, one
\* user message, then assistant messages each followed immediately by exactly
\* as many tool messages as it requested tool calls, and nothing else.
ConversationShapeAsStated ==
  /\ msgs[1].role = "system"
  /\ msgs[2].role = "user"
  /\ \A i \in 3..Len(msgs) : msgs[i].role \in {"assistant", "tool"}
  /\ Len(msgs) >= 3 => msgs[3].role = "assistant"
  /\ \A i \in 3..Len(msgs) :
       msgs[i].role = "assistant" => ToolRunAfter(i) = msgs[i].ncalls

\* C27 (amended): the conversation is one system message, one user message,
\* then assistant messages, each followed immediately by tool messages and
\* nothing else: exactly as many as it requested tool calls, except for the
\* last turn while its calls are being executed, or when a malformed
\* tool-call request raised KeyError out of query_with_tools (the transcript
\* is then discarded); that turn has at most as many.
ConversationShape ==
  /\ msgs[1].role = "system"
  /\ msgs[2].role = "user"
  /\ \A i \in 3..Len(msgs) : msgs[i].role \in {"assistant", "tool"}
  /\ Len(msgs) >= 3 => msgs[3].role = "assistant"
  /\ \A i \in 3..Len(msgs) :
       msgs[i].role = "assistant" =>
         IF lpc \in {"tools", "raised"} /\ \A j \in (i + 1)..Len(msgs) : msgs[j].role = "tool"
           THEN ToolRunAfter(i) <= msgs[i].ncalls
           ELSE ToolRunAfter(i) = msgs[i].ncalls

\* Witness of C27: a turn that requested two tool calls got both results and
\* the backend was called again.
ConversationShapeWitness ==
  /\ lpc \in {"chat", "done"}
  /\ \E i \in 3..Len(msgs) :
       /\ msgs[i].role = "assistant"
       /\ msgs[i].ncalls = 2
       /\ ToolRunAfter(i) = 2
       /\ i + 2 < Len(msgs)

\* ---------------------------------------------------------------------------
\* Specifications
\* ---------------------------------------------------------------------------

StoreNext ==
  \/ Create /\ UNCHANGED <<loopVars, histVars, runVars, sessVars, paramVars, textVars, turnVars, hbVars, cbVars>>
  \/ Update /\ UNCHANGED <<loopVars, histVars, runVars, sessVars, paramVars, textVars, turnVars, hbVars, cbVars>>
  \/ ClearHistory /\ UNCHANGED <<loopVars, histVars, runVars, sessVars, paramVars, textVars, turnVars, hbVars, cbVars>>

StoreSpec == Init /\ [][StoreNext]_vars

RunNext ==
  \/ StartRun /\ UNCHANGED <<loopVars, histVars, sessVars, paramVars, textVars, turnVars, hbVars, cbVars>>
  \/ LogStatus /\ UNCHANGED <<loopVars, histVars, sessVars, paramVars, textVars, turnVars, hbVars, cbVars>>
  \/ OrchWork /\ UNCHANGED <<loopVars, histVars, sessVars, paramVars, textVars, turnVars, hbVars, cbVars>>
  \/ Settle /\ UNCHANGED <<loopVars, histVars, sessVars, paramVars, textVars, turnVars, hbVars, cbVars>>
  \/ SettleWrite /\ UNCHANGED <<loopVars, histVars, sessVars, paramVars, textVars, turnVars, hbVars, cbVars>>
  \/ RunClearHistory /\ UNCHANGED <<loopVars, histVars, sessVars, paramVars, textVars, turnVars, hbVars, cbVars>>

RunSpec == Init /\ [][RunNext]_vars

LoopNext ==
  \/ Chat /\ UNCHANGED <<storeVars, histVars, runVars, sessVars, paramVars, textVars, turnVars, hbVars, cbVars>>
  \/ ToolStep /\ UNCHANGED <<storeVars, histVars, runVars, sessVars, paramVars, textVars, turnVars, hbVars, cbVars>>

LoopSpec == Init /\ [][LoopNext]_vars

SessNext ==
  \/ EnterTransport /\ UNCHANGED <<loopVars, storeVars, histVars, runVars, paramVars, textVars, turnVars, hbVars, cbVars>>
  \/ EnterSession /\ UNCHANGED <<loopVars, storeVars, histVars, runVars, paramVars, textVars, turnVars, hbVars, cbVars>>
  \/ Initialize /\ UNCHANGED <<loopVars, storeVars, histVars, runVars, paramVars, textVars, turnVars, hbVars, cbVars>>
  \/ ConnectListTools /\ UNCHANGED <<loopVars, storeVars, histVars, runVars, paramVars, textVars, turnVars, hbVars, cbVars>>
  \/ ServerChange /\ UNCHANGED <<loopVars, storeVars, histVars, runVars, paramVars, textVars, turnVars, hbVars, cbVars>>
  \/ ListTools /\ UNCHANGED <<loopVars, storeVars, histVars, runVars, paramVars, textVars, turnVars, hbVars, cbVars>>
  \/ CallTool /\ UNCHANGED <<loopVars, storeVars, histVars, runVars, paramVars, textVars, turnVars, hbVars, cbVars>>
  \/ Query /\ UNCHANGED <<loopVars, storeVars, histVars, runVars, paramVars, textVars, turnVars, hbVars, cbVars>>
  \/ Exit /\ UNCHANGED <<loopVars, storeVars, histVars, runVars, paramVars, textVars, turnVars, hbVars, cbVars>>

SessSpec == Init /\ [][SessNext]_vars

HistNext ==
  \/ Create /\ UNCHANGED <<loopVars, histVars, runVars, sessVars, paramVars, textVars, turnVars, hbVars, cbVars>>
  \/ Update /\ UNCHANGED <<loopVars, histVars, runVars, sessVars, paramVars, textVars, turnVars, hbVars, cbVars>>
  \/ Corrupt /\ UNCHANGED <<loopVars, runVars, sessVars, paramVars, textVars, turnVars, hbVars, cbVars>>
  \/ ClearHistory /\ UNCHANGED <<loopVars, histVars, runVars, sessVars, paramVars, textVars, turnVars, hbVars, cbVars>>
  \/ ListRuns /\ UNCHANGED <<loopVars, runVars, sessVars, paramVars, textVars, turnVars, hbVars, cbVars>>

HistSpec == Init /\ [][HistNext]_vars

ParamNext == ChooseParam /\ UNCHANGED <<loopVars, storeVars, histVars, runVars, sessVars, textVars, turnVars, hbVars, cbVars>>

ParamSpecInit == LoopInit /\ StoreInit /\ HistInit /\ RunInit /\ SessInit /\ ParamInit /\ TextInit0 /\ TurnInit0 /\ HbInit /\ CbInit0

ParamSpec == ParamSpecInit /\ [][ParamNext]_vars


ToolsNext ==
  \/ RunExtractTools /\ UNCHANGED <<loopVars, storeVars, histVars, runVars, sessVars, paramVars, turnVars, hbVars, cbVars>>
  \/ RunParseContentTools /\ UNCHANGED <<loopVars, storeVars, histVars, runVars, sessVars, paramVars, turnVars, hbVars, cbVars>>

ToolsSpecInit == LoopInit /\ StoreInit /\ HistInit /\ RunInit /\ SessInit /\ ParamInit0 /\ ToolsInit /\ TurnInit0 /\ HbInit /\ CbInit0

ToolsSpec == ToolsSpecInit /\ [][ToolsNext]_vars

SubstNext ==
  \/ ParsePromptSubst /\ UNCHANGED <<loopVars, storeVars, histVars, runVars, sessVars, paramVars, turnVars, hbVars, cbVars>>
  \/ BuildPromptSubst /\ UNCHANGED <<loopVars, storeVars, histVars, runVars, sessVars, paramVars, turnVars, hbVars, cbVars>>

SubstSpecInit == LoopInit /\ StoreInit /\ HistInit /\ RunInit /\ SessInit /\ ParamInit0 /\ SubstInit /\ TurnInit0 /\ HbInit /\ CbInit0

SubstSpec == SubstSpecInit /\ [][SubstNext]_vars


ParseNext ==
  \/ ParsePromptSections /\ UNCHANGED <<loopVars, storeVars, histVars, runVars, sessVars, paramVars, turnVars, hbVars, cbVars>>
  \/ ParseContentSections /\ UNCHANGED <<loopVars, storeVars, histVars, runVars, sessVars, paramVars, turnVars, hbVars, cbVars>>

ParseSpecInit == LoopInit /\ StoreInit /\ HistInit /\ RunInit /\ SessInit /\ ParamInit0 /\ ParseInit /\ TurnInit0 /\ HbInit /\ CbInit0

ParseSpec == ParseSpecInit /\ [][ParseNext]_vars


FillNext ==
  \/ PromptAnalysisFill /\ UNCHANGED <<loopVars, storeVars, histVars, runVars, sessVars, paramVars, turnVars, hbVars, cbVars>>
  \/ CustomAnalysisFill /\ UNCHANGED <<loopVars, storeVars, histVars, runVars, sessVars, paramVars, turnVars, hbVars, cbVars>>

FillSpecInit == LoopInit /\ StoreInit /\ HistInit /\ RunInit /\ SessInit /\ ParamInit0 /\ FillInit /\ TurnInit0 /\ HbInit /\ CbInit0

FillSpec == FillSpecInit /\ [][FillNext]_vars


ReparseNext ==
  \/ ParsePromptRaw /\ UNCHANGED <<loopVars, storeVars, histVars, runVars, sessVars, paramVars, turnVars, hbVars, cbVars>>
  \/ ReparsePromptRaw /\ UNCHANGED <<loopVars, storeVars, histVars, runVars, sessVars, paramVars, turnVars, hbVars, cbVars>>
  \/ ParseContentRaw /\ UNCHANGED <<loopVars, storeVars, histVars, runVars, sessVars, paramVars, turnVars, hbVars, cbVars>>
  \/ ReparseContentRaw /\ UNCHANGED <<loopVars, storeVars, histVars, runVars, sessVars, paramVars, turnVars, hbVars, cbVars>>

ReparseSpecInit == LoopInit /\ StoreInit /\ HistInit /\ RunInit /\ SessInit /\ ParamInit0 /\ ReparseInit /\ TurnInit0 /\ HbInit /\ CbInit0

ReparseSpec == ReparseSpecInit /\ [][ReparseNext]_vars


SaveNext ==
  \/ SaveCustomPrompt /\ UNCHANGED <<loopVars, storeVars, histVars, runVars, sessVars, paramVars, turnVars, hbVars, cbVars>>
  \/ DeleteCustomPrompt /\ UNCHANGED <<loopVars, storeVars, histVars, runVars, sessVars, paramVars, turnVars, hbVars, cbVars>>

SaveSpecInit == LoopInit /\ StoreInit /\ HistInit /\ RunInit /\ SessInit /\ ParamInit0 /\ SaveInit /\ TurnInit0 /\ HbInit /\ CbInit0

SaveSpec == SaveSpecInit /\ [][SaveNext]_vars


TurnNext ==
  \/ StartTurnCall /\ UNCHANGED <<loopVars, storeVars, histVars, runVars, sessVars, paramVars, textVars, hbVars, cbVars>>
  \/ FinishTurnCall /\ UNCHANGED <<loopVars, storeVars, histVars, runVars, sessVars, paramVars, textVars, hbVars, cbVars>>

TurnSpecInit == LoopInit /\ StoreInit /\ HistInit /\ RunInit /\ SessInit /\ ParamInit0 /\ TextInit0 /\ TurnInit /\ HbInit /\ CbInit0

TurnSpec == TurnSpecInit /\ [][TurnNext]_vars


HbNext ==
  \/ StartHbCall /\ UNCHANGED <<loopVars, storeVars, histVars, runVars, sessVars, paramVars, textVars, turnVars, cbVars>>
  \/ HbTimer /\ UNCHANGED <<loopVars, storeVars, histVars, runVars, sessVars, paramVars, textVars, turnVars, cbVars>>
  \/ HbStep /\ UNCHANGED <<loopVars, storeVars, histVars, runVars, sessVars, paramVars, textVars, turnVars, cbVars>>
  \/ HbResolve /\ UNCHANGED <<loopVars, storeVars, histVars, runVars, sessVars, paramVars, textVars, turnVars, cbVars>>
  \/ HbJoin /\ UNCHANGED <<loopVars, storeVars, histVars, runVars, sessVars, paramVars, textVars, turnVars, cbVars>>

HbSpec == Init /\ [][HbNext]_vars


CbNext ==
  \/ RunWithCallback /\ UNCHANGED <<loopVars, storeVars, histVars, runVars, sessVars, paramVars, textVars, turnVars, hbVars>>
  \/ RunWithNoop /\ UNCHANGED <<loopVars, storeVars, histVars, runVars, sessVars, paramVars, textVars, turnVars, hbVars>>

CbSpecInit == LoopInit /\ StoreInit /\ HistInit /\ RunInit /\ SessInit /\ ParamInit0 /\ TextInit0 /\ TurnInit0 /\ HbInit /\ CbInit

CbSpec == CbSpecInit /\ [][CbNext]_vars


SubParseNext ==
  ParsePromptWithVars /\ UNCHANGED <<loopVars, storeVars, histVars, runVars, sessVars, paramVars, turnVars, hbVars, cbVars>>

SubParseSpecInit == LoopInit /\ StoreInit /\ HistInit /\ RunInit /\ SessInit /\ ParamInit0 /\ TurnInit0 /\ HbInit /\ CbInit0 /\ SubParseInit

SubParseSpec == SubParseSpecInit /\ [][SubParseNext]_vars

====
